---- MODULE Spec2Model ----
(***************************************************************************)
(* Estimation core of dateregbot_full.py: the anchor table                 *)
(* (ensure_anchors / load_anchors), the interpolation estimator            *)
(* (estimate_by_anchors), the public-post scrape loop                      *)
(* (scrape_earliest_tme_post), the aggregator (choose_final_estimate) and  *)
(* the request pipeline (handle_request).                                  *)
(*                                                                         *)
(* A datetime is an integer: whole seconds since 2013-01-01T00:00:00Z.     *)
(* A timedelta is an integer number of seconds.  timedelta * float is the  *)
(* exact product rounded half-to-even to the unit, as CPython rounds it to *)
(* its unit (the microsecond).  An ISO-8601 string is the tuple            *)
(* <<year, month, day, hour, minute, second>> of its fields.               *)
(* An Optional value is a record [some, v]; a dict is the sequence of its  *)
(* <<key, value>> items in insertion order.                                *)
(***************************************************************************)
EXTENDS Integers, Sequences, FiniteSets, TLC

VARIABLES now, file, anchors, est, prev,
          pc, ent, results, final, obs,
          page, found, scraped, okTimes

vars == <<now, file, anchors, est, prev, pc, ent, results, final, obs,
          page, found, scraped, okTimes>>

\* ------------------------------------------------------------------------
\* Bounds of the model
\* ------------------------------------------------------------------------
MaxYear == 2015
NumTimes == 2
MaxPhotos == 2

\* ------------------------------------------------------------------------
\* Program constants
\* ------------------------------------------------------------------------
start_year == 2013
user_id_start == 1000
user_id_end == 2000000000
LastPage == 5

\* ------------------------------------------------------------------------
\* Optional values and dicts
\* ------------------------------------------------------------------------
None == [some |-> FALSE, v |-> 0]
Some(x) == [some |-> TRUE, v |-> x]

\* Truth value of an Optional[datetime]: None is false, a datetime is true.
Truthy(o) == o.some

DictHas(d, k) == \E i \in 1..Len(d) : d[i][1] = k

\* dict.get(k): the value stored under k, None when k is not a key.
DictGet(d, k) ==
    IF DictHas(d, k)
    THEN LET i == CHOOSE j \in 1..Len(d) : d[j][1] = k IN d[i][2]
    ELSE None

\* d[k] = v: replaces the value in place, or appends a new item.
DictSet(d, k, v) ==
    IF DictHas(d, k)
    THEN [i \in 1..Len(d) |-> IF d[i][1] = k THEN <<k, v>> ELSE d[i]]
    ELSE Append(d, <<k, v>>)

\* ------------------------------------------------------------------------
\* datetime: calendar arithmetic
\* ------------------------------------------------------------------------
IsLeap(y) == (y % 4 = 0) /\ ((y % 100 # 0) \/ (y % 400 = 0))
YearDays(y) == IF IsLeap(y) THEN 366 ELSE 365

RECURSIVE DaysBeforeYear(_)
DaysBeforeYear(y) ==
    IF y <= start_year THEN 0 ELSE DaysBeforeYear(y - 1) + YearDays(y - 1)

MonthDays(y, m) ==
    IF m = 2 THEN (IF IsLeap(y) THEN 29 ELSE 28)
    ELSE IF m \in {4, 6, 9, 11} THEN 30 ELSE 31

RECURSIVE DaysBeforeMonth(_, _)
DaysBeforeMonth(y, m) ==
    IF m <= 1 THEN 0 ELSE DaysBeforeMonth(y, m - 1) + MonthDays(y, m - 1)

\* datetime(year, month, day, hour, minute, second, tzinfo=timezone.utc)
datetime(y, mo, d, h, mi, s) ==
    (DaysBeforeYear(y) + DaysBeforeMonth(y, mo) + (d - 1)) * 86400
        + h * 3600 + mi * 60 + s

RECURSIVE YearFrom(_, _)
YearFrom(days, y) ==
    IF days < DaysBeforeYear(y + 1) THEN y ELSE YearFrom(days, y + 1)

\* now.year
YearOf(t) == YearFrom(t \div 86400, start_year)

RECURSIVE MonthFrom(_, _, _)
MonthFrom(y, doy, m) ==
    IF doy < DaysBeforeMonth(y, m + 1) THEN m ELSE MonthFrom(y, doy, m + 1)

\* dt.isoformat()
isoformat(t) ==
    LET days == t \div 86400
        sod  == t % 86400
        y    == YearFrom(days, start_year)
        doy  == days - DaysBeforeYear(y)
        m    == MonthFrom(y, doy, 1)
    IN  <<y, m, doy - DaysBeforeMonth(y, m) + 1,
          sod \div 3600, (sod % 3600) \div 60, sod % 60>>

\* datetime.fromisoformat(s).astimezone(timezone.utc)
fromisoformat(s) == datetime(s[1], s[2], s[3], s[4], s[5], s[6])

\* ------------------------------------------------------------------------
\* timedelta * (p / q), rounded half to even
\* ------------------------------------------------------------------------
\* a * b = qr[1] * c + qr[2] with 0 <= qr[2] < c, for a >= 0, 0 <= b < c;
\* computed bit by bit so that no intermediate value exceeds c.
RECURSIVE MulDivMod(_, _, _)
MulDivMod(a, b, c) ==
    IF a = 0 THEN <<0, 0>>
    ELSE LET h  == MulDivMod(a \div 2, b, c)
             dq == IF h[2] >= c - h[2] THEN 2 * h[1] + 1 ELSE 2 * h[1]
             dr == IF h[2] >= c - h[2] THEN h[2] - (c - h[2]) ELSE h[2] + h[2]
         IN  IF a % 2 = 0 THEN <<dq, dr>>
             ELSE IF dr >= c - b THEN <<dq + 1, dr - (c - b)>>
                  ELSE <<dq, dr + b>>

\* round-half-even(a * p / q) for a >= 0, p >= 0, q > 0
MulFracPos(a, p, q) ==
    LET whole == a * (p \div q)
        qr    == MulDivMod(a, p % q, q)
        quo   == whole + qr[1]
        r     == qr[2]
    IN  IF r > q - r THEN quo + 1
        ELSE IF r = q - r THEN quo + (quo % 2)
        ELSE quo

\* delta * frac, where frac = p / q (q > 0), any signs of delta and p
MulFrac(delta, p, q) ==
    LET a == IF delta < 0 THEN 0 - delta ELSE delta
        b == IF p < 0 THEN 0 - p ELSE p
        m == MulFracPos(a, b, q)
    IN  IF (delta < 0) = (p < 0) THEN m ELSE 0 - m

\* ------------------------------------------------------------------------
\* Anchors
\* ------------------------------------------------------------------------
\* the loop of ensure_anchors: one entry per year, ids user_id_start + i*step
RECURSIVE YearAnchors(_, _, _)
YearAnchors(i, total_anchors, step) ==
    IF i >= total_anchors THEN <<>>
    ELSE <<[id |-> user_id_start + i * step,
            ts |-> isoformat(datetime(start_year + i, 1, 1, 0, 0, 0))]>>
         \o YearAnchors(i + 1, total_anchors, step)

ensure_anchors_RangeExcludesEndYear(t) ==
    LET total_anchors == YearOf(t) - start_year + 1
        step          == (user_id_end - user_id_start) \div total_anchors
    IN  YearAnchors(0, total_anchors - 1, step)
            \o <<[id |-> user_id_end, ts |-> isoformat(t)]>>

ensure_anchors_NoFinalAnchor(t) ==
    LET total_anchors == YearOf(t) - start_year + 1
        step          == (user_id_end - user_id_start) \div total_anchors
    IN  YearAnchors(0, total_anchors, step)

\* ensure_anchors(): the content written to anchors.json at instant t
ensure_anchors(t) ==
    LET end_year      == YearOf(t)
        total_anchors == end_year - start_year + 1
        step          == (user_id_end - user_id_start) \div total_anchors
    IN  YearAnchors(0, total_anchors, step)
            \o <<[id |-> user_id_end, ts |-> isoformat(t)]>>

\* list.sort(key=id): stable insertion sort
RECURSIVE InsertById(_, _)
InsertById(sorted, x) ==
    IF sorted = <<>> THEN <<x>>
    ELSE IF x[1] < sorted[Len(sorted)][1]
         THEN Append(InsertById(SubSeq(sorted, 1, Len(sorted) - 1), x),
                     sorted[Len(sorted)])
         ELSE Append(sorted, x)

RECURSIVE SortById(_)
SortById(s) ==
    IF s = <<>> THEN <<>>
    ELSE InsertById(SortById(SubSeq(s, 1, Len(s) - 1)), s[Len(s)])

\* the parse-and-sort half of load_anchors, on the artifact's content
ParseAnchors(data) ==
    SortById([i \in 1..Len(data) |-> <<data[i].id, fromisoformat(data[i].ts)>>])

Bracket_NoScan(a, user_id, i) == <<a[1], a[Len(a)]>>

\* the linear scan for the bracketing pair (first match wins);
\* falls back to the first and last anchor
RECURSIVE Bracket(_, _, _)
Bracket(a, user_id, i) ==
    IF i > Len(a) - 1 THEN <<a[1], a[Len(a)]>>
    ELSE IF a[i][1] <= user_id /\ user_id <= a[i + 1][1] THEN <<a[i], a[i + 1]>>
    ELSE Bracket(a, user_id, i + 1)

\* (est, rationale) as returned; ids are the two ids the "Interpolated between"
\* rationale names, zero tells that the zero-width guard chose frac = 0.0
Estimate(dt, why, ids, zero) == [dt |-> dt, why |-> why, ids |-> ids, zero |-> zero]

\* frac = (user_id - uid0) / (uid1 - uid0) if (uid1 - uid0) else 0.0;
\* base + (t1 - t0) * frac
Interpolate_Reversed(base, p0, p1, user_id, uid_ref) ==
    LET w == p1[1] - p0[1]
        d == p1[2] - p0[2]
    IN  base + (IF w # 0 THEN MulFrac(d, p1[1] - user_id, w) ELSE 0)

Interpolate(base, p0, p1, user_id, uid_ref) ==
    LET w == p1[1] - p0[1]
        d == p1[2] - p0[2]
    IN  base + (IF w # 0 THEN MulFrac(d, user_id - uid_ref, w) ELSE 0)

\* estimate_by_anchors below the exact-match loop
Approximate(a, user_id) ==
    IF Len(a) = 0 THEN Estimate(0, "IndexError", <<>>, FALSE)
    ELSE IF user_id < a[1][1]
    THEN IF Len(a) < 2 THEN Estimate(0, "IndexError", <<>>, FALSE)
         ELSE Estimate(Interpolate(a[1][2], a[1], a[2], user_id, a[1][1]),
                       "Extrapolated before first anchor (low confidence)",
                       <<>>, a[2][1] = a[1][1])
    ELSE IF user_id > a[Len(a)][1]
    THEN LET n == Len(a)
         IN  \* anchors[-2] of a one-element list raises IndexError
             IF n < 2 THEN Estimate(0, "IndexError", <<>>, FALSE)
             ELSE Estimate(Interpolate(a[n][2], a[n - 1], a[n], user_id, a[n][1]),
                           "Extrapolated after last anchor (low confidence)",
                           <<>>, a[n][1] = a[n - 1][1])
    ELSE LET b == Bracket(a, user_id, 1)
         IN  Estimate(Interpolate(b[1][2], b[1], b[2], user_id, b[1][1]),
                      "Interpolated between", <<b[1][1], b[2][1]>>, b[2][1] = b[1][1])

EstimateOn_NoExactLoop(a, user_id) == Approximate(a, user_id)

\* estimate_by_anchors after load_anchors returned the table a
EstimateOn(a, user_id) ==
    IF \E i \in 1..Len(a) : a[i][1] = user_id
    THEN LET i == CHOOSE j \in 1..Len(a) :
                      a[j][1] = user_id /\ \A k \in 1..(j - 1) : a[k][1] # user_id
         IN  Estimate(a[i][2], "Exact anchor match", <<>>, FALSE)
    ELSE Approximate(a, user_id)

\* ------------------------------------------------------------------------
\* Signal extractors
\* ------------------------------------------------------------------------
\* min(found) of a non-empty list
RECURSIVE MinOf(_)
MinOf(s) ==
    IF Len(s) = 1 THEN s[1]
    ELSE LET m == MinOf(Tail(s)) IN IF s[1] <= m THEN s[1] ELSE m

\* the inner loop over soup.find_all("time"): an element without datetime/title
\* is skipped, one whose value fromisoformat rejects is skipped
RECURSIVE ParseTimes(_)
ParseTimes(elems) ==
    IF elems = <<>> THEN <<>>
    ELSE IF elems[1].attr = "iso"
         THEN <<fromisoformat(elems[1].s)>> \o ParseTimes(Tail(elems))
         ELSE ParseTimes(Tail(elems))

\* one iteration of the page loop for a page whose fetch returned
ScrapePage(fnd, o) ==
    IF o.kind = "non200" THEN fnd ELSE fnd \o ParseTimes(o.times)

\* the tail of scrape_earliest_tme_post
ScrapeResult(fnd) == IF fnd = <<>> THEN None ELSE Some(MinOf(fnd))

\* scrape_earliest_tme_post(username), given what each page fetch does:
\* requests.get raising leaves the loop through the outer except
RECURSIVE ScrapeFrom(_, _, _)
ScrapeFrom(pages, i, fnd) ==
    IF i > LastPage THEN ScrapeResult(fnd)
    ELSE IF pages[i].kind = "exc" THEN None
    ELSE ScrapeFrom(pages, i + 1, ScrapePage(fnd, pages[i]))

scrape_earliest_tme_post(pages) == ScrapeFrom(pages, 1, <<>>)

\* extract_exif_datetime_from_bytes(image_bytes)
extract_exif_datetime_from_bytes(blob) ==
    IF blob.kind = "exif"
    THEN Some(datetime(blob.s[1], blob.s[2], blob.s[3], blob.s[4], blob.s[5], blob.s[6]))
    ELSE None

\* the loop of earliest_profile_photo_exif over the downloaded photos
RECURSIVE ExifDates(_)
ExifDates(items) ==
    IF items = <<>> THEN <<>>
    ELSE IF items[1].kind \in {"download_exc", "empty"} THEN ExifDates(Tail(items))
    ELSE LET exif_dt == extract_exif_datetime_from_bytes(items[1])
         IN  IF Truthy(exif_dt) THEN <<exif_dt.v>> \o ExifDates(Tail(items))
             ELSE ExifDates(Tail(items))

\* earliest_profile_photo_exif(client, entity)
earliest_profile_photo_exif(photos) ==
    IF photos.exc THEN None
    ELSE LET exif_dates == ExifDates(photos.items)
         IN  IF exif_dates # <<>> THEN Some(MinOf(exif_dates)) ELSE None

\* the iter_messages loop: the first message that is a TLMessage with a date
RECURSIVE FirstDated(_)
FirstDated(msgs) ==
    IF msgs = <<>> THEN None
    ELSE IF Truthy(msgs[1]) THEN msgs[1] ELSE FirstDated(Tail(msgs))

ScanMessages(scan) == FirstDated(scan.msgs)

\* earliest_public_message_date(client, entity)
earliest_public_message_date(username, pages, scan) ==
    LET sc == IF username THEN scrape_earliest_tme_post(pages) ELSE None
    IN  IF username /\ Truthy(sc) THEN sc ELSE ScanMessages(scan)

\* ------------------------------------------------------------------------
\* Aggregation
\* ------------------------------------------------------------------------
choose_final_estimate_AnchorsFirst(r) ==
    IF Truthy(DictGet(r, "by_anchors"))
    THEN [dt |-> DictGet(r, "by_anchors"),
          text |-> "Anchors interpolation (low confidence)", conf |-> 35]
    ELSE IF Truthy(DictGet(r, "by_profile_photo"))
    THEN [dt |-> DictGet(r, "by_profile_photo"),
          text |-> "Earliest profile photo EXIF (high confidence)", conf |-> 90]
    ELSE IF Truthy(DictGet(r, "by_telethon_msg"))
    THEN [dt |-> DictGet(r, "by_telethon_msg"),
          text |-> "Earliest message found in shared dialogs (medium-high confidence)",
          conf |-> 75]
    ELSE IF Truthy(DictGet(r, "by_tme_scrape"))
    THEN [dt |-> DictGet(r, "by_tme_scrape"),
          text |-> "Earliest public t.me post (medium confidence)", conf |-> 60]
    ELSE [dt |-> None, text |-> "No usable signal found", conf |-> 0]

choose_final_estimate_NoAnchors(r) ==
    IF Truthy(DictGet(r, "by_profile_photo"))
    THEN [dt |-> DictGet(r, "by_profile_photo"),
          text |-> "Earliest profile photo EXIF (high confidence)", conf |-> 90]
    ELSE IF Truthy(DictGet(r, "by_telethon_msg"))
    THEN [dt |-> DictGet(r, "by_telethon_msg"),
          text |-> "Earliest message found in shared dialogs (medium-high confidence)",
          conf |-> 75]
    ELSE IF Truthy(DictGet(r, "by_tme_scrape"))
    THEN [dt |-> DictGet(r, "by_tme_scrape"),
          text |-> "Earliest public t.me post (medium confidence)", conf |-> 60]
    ELSE [dt |-> None, text |-> "No usable signal found", conf |-> 0]

\* choose_final_estimate(results); the confidence is in hundredths
choose_final_estimate(r) ==
    IF Truthy(DictGet(r, "by_profile_photo"))
    THEN [dt |-> DictGet(r, "by_profile_photo"),
          text |-> "Earliest profile photo EXIF (high confidence)", conf |-> 90]
    ELSE IF Truthy(DictGet(r, "by_telethon_msg"))
    THEN [dt |-> DictGet(r, "by_telethon_msg"),
          text |-> "Earliest message found in shared dialogs (medium-high confidence)",
          conf |-> 75]
    ELSE IF Truthy(DictGet(r, "by_tme_scrape"))
    THEN [dt |-> DictGet(r, "by_tme_scrape"),
          text |-> "Earliest public t.me post (medium confidence)", conf |-> 60]
    ELSE IF Truthy(DictGet(r, "by_anchors"))
    THEN [dt |-> DictGet(r, "by_anchors"),
          text |-> "Anchors interpolation (low confidence)", conf |-> 35]
    ELSE [dt |-> None, text |-> "No usable signal found", conf |-> 0]

\* ------------------------------------------------------------------------
\* Inputs of the model
\* ------------------------------------------------------------------------
\* instants the clock takes: the first second of a year and a later one
Offsets == {0, 17325296}
Nows == {datetime(y, 1, 1, 0, 0, 0) + o : y \in start_year..MaxYear, o \in Offsets}

\* ids of the yearly anchors of the tables the clock can generate
YearlyIds ==
    UNION {{user_id_start + i * ((user_id_end - user_id_start) \div n) : i \in 0..(n - 1)} :
              n \in 1..(MaxYear - start_year + 1)}

UserIds ==
    YearlyIds \cup {0, user_id_start + 1, 1000000000, user_id_end - 1, user_id_end,
                    user_id_end + 1, 2147483647}

\* a table left on disk before the program runs
ScenarioNow == datetime(2023, 6, 15, 12, 0, 0)
ScenarioData ==
    << [id |-> 1000,       ts |-> <<2013, 1, 1, 0, 0, 0>>],
       [id |-> 500500000,  ts |-> <<2018, 1, 1, 0, 0, 0>>],
       [id |-> 1000500000, ts |-> <<2023, 1, 1, 0, 0, 0>>],
       [id |-> 2000000000, ts |-> isoformat(ScenarioNow)] >>

\* what the collaborators can hand to one request
PostTimes == {datetime(2014, 3, k, 10, 0, 0) : k \in 1..NumTimes}
MsgTimes == {datetime(2014, 5, k, 11, 0, 0) : k \in 1..NumTimes}
PhotoTimes == {datetime(2014, 1, k, 12, 0, 0) : k \in 1..NumTimes}

SeqsUpTo(S, n) == UNION {[1..k -> S] : k \in 0..n}

\* <time> elements: no datetime/title, an unparseable value, an ISO value
Elements ==
    {[attr |-> "missing", s |-> <<>>], [attr |-> "bad", s |-> <<>>]}
        \cup {[attr |-> "iso", s |-> isoformat(t)] : t \in PostTimes}

PageRaises == [kind |-> "exc", times |-> <<>>]
PageNon200 == [kind |-> "non200", times |-> <<>>]
PagesOk == {[kind |-> "ok", times |-> e] : e \in SeqsUpTo(Elements, 1)}

\* the five page fetches of one scrape inside a request: the first two vary
ScrapeInputs ==
    LET P == {PageRaises, PageNon200}
                 \cup {[kind |-> "ok", times |-> <<[attr |-> "iso", s |-> isoformat(t)]>>] :
                          t \in PostTimes}
    IN  {[i \in 1..LastPage |-> IF i = 1 THEN a ELSE IF i = 2 THEN b ELSE PageNon200] :
            a \in P, b \in P}

PhotoItems ==
    {[kind |-> k, s |-> <<>>] : k \in {"download_exc", "empty", "noexif"}}
        \cup {[kind |-> "exif", s |-> isoformat(t)] : t \in PhotoTimes}
PhotoInputs ==
    {[exc |-> TRUE, items |-> <<>>]}
        \cup {[exc |-> FALSE, items |-> q] : q \in SeqsUpTo(PhotoItems, MaxPhotos)}

\* what iter_messages yields before it ends or raises: nothing, one record, or
\* a record without a date followed by a dated one
ScanInputs ==
    {[exc |-> b, msgs |-> q] :
        b \in BOOLEAN,
        q \in SeqsUpTo({None} \cup {Some(t) : t \in MsgTimes}, 1)
                 \cup {<<None, Some(t)>> : t \in MsgTimes}}

PipelineIds == {0, user_id_start, 1000000000, user_id_end + 1}

Absent == [exists |-> FALSE, data |-> <<>>]
Written(data) == [exists |-> TRUE, data |-> data]

NoEst == [called |-> FALSE, id |-> 0, dt |-> 0, why |-> "", ids |-> <<>>, zero |-> FALSE]
Call(user_id, e) ==
    [called |-> TRUE, id |-> user_id, dt |-> e.dt, why |-> e.why,
     ids |-> e.ids, zero |-> e.zero]

NoFinal == [dt |-> None, text |-> "", conf |-> 0]
NoObs == [reply |-> "", photo |-> None, msg |-> None, scrape1 |-> None,
          scan |-> None, scrape2 |-> None, failed |-> {}]
NoEnt == [id |-> 0, uname |-> FALSE]

\* ------------------------------------------------------------------------
\* The anchor table and the estimator as operations
\* ------------------------------------------------------------------------
\* the clock moves forward
Tick ==
    /\ \E t \in Nows : t > now /\ now' = t
    /\ UNCHANGED <<file, anchors, est, prev, pc, ent, results, final, obs,
                   page, found, scraped, okTimes>>

\* ensure_anchors()
CallEnsure ==
    /\ file' = Written(ensure_anchors(now))
    /\ UNCHANGED <<now, anchors, est, prev, pc, ent, results, final, obs,
                   page, found, scraped, okTimes>>

\* load_anchors(); est and prev are the last two estimates made on the table
\* in anchors, and are forgotten when another table is loaded
CallLoad ==
    /\ file' = Written(ensure_anchors(now))
    /\ anchors' = ParseAnchors(file'.data)
    /\ est' = IF anchors' = anchors THEN est ELSE NoEst
    /\ prev' = IF anchors' = anchors THEN prev ELSE NoEst
    /\ UNCHANGED <<now, pc, ent, results, final, obs,
                   page, found, scraped, okTimes>>

\* estimate_by_anchors(user_id)
CallEstimate(user_id) ==
    /\ file' = Written(ensure_anchors(now))
    /\ anchors' = ParseAnchors(file'.data)
    /\ est' = Call(user_id, EstimateOn(anchors', user_id))
    /\ prev' = IF anchors' = anchors THEN est ELSE NoEst
    /\ UNCHANGED <<now, pc, ent, results, final, obs, page, found, scraped, okTimes>>

InitAnchors ==
    /\ now \in Nows
    /\ file \in {Absent, Written(ScenarioData)}
    /\ anchors = <<>>
    /\ est = NoEst
    /\ prev = NoEst
    /\ pc = "idle"
    /\ ent = NoEnt
    /\ results = <<>>
    /\ final = NoFinal
    /\ obs = NoObs
    /\ page = 1
    /\ found = <<>>
    /\ scraped = None
    /\ okTimes = {}

NextAnchors ==
    \/ Tick
    \/ CallEnsure
    \/ CallLoad
    \/ \E u \in UserIds : CallEstimate(u)

SpecAnchors == InitAnchors /\ [][NextAnchors]_vars

\* ------------------------------------------------------------------------
\* The request pipeline: handle_request, one action per stretch between awaits
\* ------------------------------------------------------------------------
\* lines 295-326: pick the identifier, resolve it, start with an empty map
Receive ==
    /\ pc = "idle"
    /\ results' = <<>>
    /\ final' = NoFinal
    /\ est' = NoEst
    /\ anchors' = <<>>
    /\ \/ \* no forward and no text: ask for an identifier and return
          /\ obs' = [NoObs EXCEPT !.reply = "need_identifier"]
          /\ ent' = NoEnt
          /\ pc' = "idle"
       \/ \* resolve_entity_telethon raises
          /\ obs' = [NoObs EXCEPT !.reply = "resolve_error"]
          /\ ent' = NoEnt
          /\ pc' = "idle"
       \/ \* resolved: user_id and uname are taken from the entity
          /\ \E e \in [id : PipelineIds, uname : BOOLEAN] : ent' = e
          /\ obs' = NoObs
          /\ pc' = "photo"
    /\ UNCHANGED <<now, file, prev, page, found, scraped, okTimes>>

\* lines 328-330
Photo ==
    /\ pc = "photo"
    /\ \E photos \in PhotoInputs :
          LET pf_dt == earliest_profile_photo_exif(photos)
          IN  /\ results' = IF Truthy(pf_dt) THEN DictSet(results, "by_profile_photo", pf_dt)
                            ELSE results
              /\ obs' = [obs EXCEPT !.photo = pf_dt,
                                    !.failed = IF photos.exc THEN @ \cup {"photo"} ELSE @]
    /\ pc' = "message"
    /\ UNCHANGED <<now, file, anchors, est, prev, ent, final, page, found, scraped, okTimes>>

\* lines 332-334
Message ==
    /\ pc = "message"
    /\ \E pages \in ScrapeInputs, scan \in ScanInputs :
          LET sc      == IF ent.uname THEN scrape_earliest_tme_post(pages) ELSE None
              scanned == ~(ent.uname /\ Truthy(sc))
              tm_dt   == earliest_public_message_date(ent.uname, pages, scan)
          IN  /\ results' = IF Truthy(tm_dt) THEN DictSet(results, "by_telethon_msg", tm_dt)
                            ELSE results
              /\ obs' = [obs EXCEPT
                            !.msg = tm_dt,
                            !.scrape1 = sc,
                            !.scan = IF scanned THEN ScanMessages(scan) ELSE None,
                            !.failed = @ \cup (IF scanned /\ scan.exc /\ ~Truthy(ScanMessages(scan))
                                               THEN {"scan"} ELSE {})
                                         \cup (IF ent.uname /\ \E i \in 1..LastPage : pages[i].kind = "exc"
                                               THEN {"scrape"} ELSE {})]
    /\ pc' = "rest"
    /\ UNCHANGED <<now, file, anchors, est, prev, ent, final, page, found, scraped, okTimes>>

\* lines 336-367: the second scrape, the anchor estimate, the choice, the reply
Finish ==
    /\ pc = "rest"
    /\ file' = Written(ensure_anchors(now))
    /\ anchors' = ParseAnchors(file'.data)
    /\ est' = Call(ent.id, EstimateOn(anchors', ent.id))
    /\ \E pages \in ScrapeInputs :
          LET called == ent.uname /\ ~DictHas(results, "by_tme_scrape")
              sc     == IF called THEN scrape_earliest_tme_post(pages) ELSE None
              r2     == IF Truthy(sc) THEN DictSet(results, "by_tme_scrape", sc) ELSE results
          IN  IF est'.why = "IndexError"
              THEN /\ results' = r2
                   /\ final' = NoFinal
                   /\ obs' = [obs EXCEPT !.scrape2 = sc, !.reply = "crash"]
              ELSE /\ results' = DictSet(r2, "by_anchors", Some(est'.dt))
                   /\ final' = choose_final_estimate(results')
                   /\ obs' = [obs EXCEPT
                                 !.scrape2 = sc,
                                 !.reply = "estimate",
                                 !.failed = @ \cup (IF called /\ \E i \in 1..LastPage : pages[i].kind = "exc"
                                                    THEN {"scrape"} ELSE {})]
    /\ pc' = "idle"
    /\ UNCHANGED <<now, prev, ent, page, found, scraped, okTimes>>

Init ==
    /\ now \in Nows
    /\ file \in {Absent, Written(ScenarioData)}
    /\ anchors = <<>>
    /\ est = NoEst
    /\ prev = NoEst
    /\ pc = "idle"
    /\ ent = NoEnt
    /\ results = <<>>
    /\ final = NoFinal
    /\ obs = NoObs
    /\ page = 1
    /\ found = <<>>
    /\ scraped = None
    /\ okTimes = {}

Next ==
    \/ Tick
    \/ Receive
    \/ Photo
    \/ Message
    \/ Finish

Spec == Init /\ [][Next]_vars

\* ------------------------------------------------------------------------
\* The aggregator on every results map
\* ------------------------------------------------------------------------
Slots == {"by_profile_photo", "by_telethon_msg", "by_tme_scrape", "by_anchors"}

\* results[k] = v
SetSlot(k, v) ==
    /\ pc = "build"
    /\ results' = DictSet(results, k, v)
    /\ UNCHANGED <<now, file, anchors, est, prev, pc, ent, final, obs,
                   page, found, scraped, okTimes>>

\* choose_final_estimate(results)
Choose ==
    /\ pc = "build"
    /\ final' = choose_final_estimate(results)
    /\ pc' = "chosen"
    /\ UNCHANGED <<now, file, anchors, est, prev, ent, results, obs,
                   page, found, scraped, okTimes>>

InitChoose ==
    /\ now = 0
    /\ file = Absent
    /\ anchors = <<>>
    /\ est = NoEst
    /\ prev = NoEst
    /\ pc = "build"
    /\ ent = NoEnt
    /\ results = <<>>
    /\ final = NoFinal
    /\ obs = NoObs
    /\ page = 1
    /\ found = <<>>
    /\ scraped = None
    /\ okTimes = {}

NextChoose ==
    \/ \E k \in Slots, v \in {None} \cup {Some(t) : t \in PostTimes} : SetSlot(k, v)
    \/ Choose

SpecChoose == InitChoose /\ [][NextChoose]_vars

\* ------------------------------------------------------------------------
\* The scrape, page by page
\* ------------------------------------------------------------------------
\* requests.get raises: the outer except returns None
FetchRaises ==
    /\ pc = "loop"
    /\ page <= LastPage
    /\ scraped' = None
    /\ pc' = "returned"
    /\ UNCHANGED <<now, file, anchors, est, prev, ent, results, final, obs,
                   page, found, okTimes>>

\* the page came back; okTimes collects the timestamps parsed from the pages
\* fetched so far
FetchReturns(o) ==
    /\ pc = "loop"
    /\ page <= LastPage
    /\ found' = ScrapePage(found, o)
    /\ okTimes' = okTimes \cup (IF o.kind = "ok"
                                THEN {fromisoformat(o.times[i].s) :
                                         i \in {j \in 1..Len(o.times) : o.times[j].attr = "iso"}}
                                ELSE {})
    /\ page' = page + 1
    /\ IF page = LastPage
       THEN scraped' = ScrapeResult(found') /\ pc' = "returned"
       ELSE UNCHANGED <<scraped, pc>>
    /\ UNCHANGED <<now, file, anchors, est, prev, ent, results, final, obs>>

FetchNon200 == FetchReturns(PageNon200)
FetchOk == \E o \in PagesOk : FetchReturns(o)

InitScrape ==
    /\ now = 0
    /\ file = Absent
    /\ anchors = <<>>
    /\ est = NoEst
    /\ prev = NoEst
    /\ pc = "loop"
    /\ ent = NoEnt
    /\ results = <<>>
    /\ final = NoFinal
    /\ obs = NoObs
    /\ page = 1
    /\ found = <<>>
    /\ scraped = None
    /\ okTimes = {}

NextScrape ==
    \/ FetchRaises
    \/ FetchNon200
    \/ FetchOk

SpecScrape == InitScrape /\ [][NextScrape]_vars

\* ------------------------------------------------------------------------
\* Properties of the anchor table and the estimator
\* ------------------------------------------------------------------------
AnchorIds == {anchors[i][1] : i \in 1..Len(anchors)}
InAnchorRange(u) ==
    Len(anchors) >= 2 /\ anchors[1][1] <= u /\ u <= anchors[Len(anchors)][1]

\* C2: once anchors.json exists, no call changes its content (ensure_anchors
\* does nothing when the artifact is already there).
C2_ArtifactNeverRewritten == [][file.exists => file' = file]_vars

\* C3: an identifier equal to an anchor id of the loaded table gets exactly that
\* anchor's timestamp and the rationale "Exact anchor match", never an
\* extrapolated or interpolated one.
C3_ExactAnchorMatch ==
    (est.called /\ est.id \in AnchorIds) =>
        /\ est.why = "Exact anchor match"
        /\ est.ids = <<>>
        /\ \E i \in 1..Len(anchors) : anchors[i][1] = est.id /\ anchors[i][2] = est.dt

C3_Witness ==
    /\ est.called
    /\ est.id \in AnchorIds \ {user_id_start, user_id_end}
    /\ est.why = "Exact anchor match"

\* C4: on one table of at least two anchors, two identifiers within the anchor
\* range get timestamps in the order of the identifiers.
C4_MonotonicInRange ==
    (est.called /\ prev.called /\ InAnchorRange(est.id) /\ InAnchorRange(prev.id)) =>
        /\ (prev.id < est.id => prev.dt <= est.dt)
        /\ (est.id < prev.id => est.dt <= prev.dt)

C4_Witness ==
    /\ est.called /\ prev.called
    /\ InAnchorRange(est.id) /\ InAnchorRange(prev.id)
    /\ prev.why = "Interpolated between" /\ est.why = "Interpolated between"
    /\ prev.ids = est.ids
    /\ prev.id < est.id /\ prev.dt < est.dt

\* the year y with Jan 1 of y <= t < Jan 1 of y + 1
CalendarYear(t) ==
    CHOOSE y \in start_year..(MaxYear + 1) :
        datetime(y, 1, 1, 0, 0, 0) <= t /\ t < datetime(y + 1, 1, 1, 0, 0, 0)

GeneratedAt(data, t) ==
    LET n == CalendarYear(t) - 2013 + 1
    IN  /\ Len(data) = n + 1
        /\ data[1] = [id |-> 1000, ts |-> <<2013, 1, 1, 0, 0, 0>>]
        /\ \A i \in 0..(n - 1) :
              /\ data[i + 1].id = 1000 + i * ((2000000000 - 1000) \div n)
              /\ data[i + 1].ts = <<2013 + i, 1, 1, 0, 0, 0>>
        /\ data[n + 1].id = 2000000000
        /\ fromisoformat(data[n + 1].ts) = t

\* C5: the artifact written at instant now has (year(now) - 2013 + 1) + 1
\* entries: one per year from 2013 with id 1000 + i*floor(1999999000/count) and
\* Jan 1 00:00:00 of the year, then id 2000000000 with timestamp now.
C5_GeneratedArtifact == [][file' # file => GeneratedAt(file'.data, now)]_vars

C5_Witness ==
    /\ file.exists
    /\ file.data # ScenarioData
    /\ Len(file.data) = 4
    /\ file.data[4].ts # <<2015, 1, 1, 0, 0, 0>>

\* C10: every loaded table has at least two anchors, strictly increasing ids
\* and non-decreasing timestamps; no estimate fails on an index and none takes
\* the zero-width guard.
C10_TableWellFormed ==
    /\ anchors # <<>> =>
          /\ Len(anchors) >= 2
          /\ \A i \in 1..(Len(anchors) - 1) :
                anchors[i][1] < anchors[i + 1][1] /\ anchors[i][2] <= anchors[i + 1][2]
    /\ est.called => (est.why # "IndexError" /\ ~est.zero)

C10_Witness ==
    /\ est.called
    /\ Len(anchors) = 2
    /\ est.why = "Extrapolated after last anchor (low confidence)"
    /\ est.id > user_id_end

\* ------------------------------------------------------------------------
\* Properties of the aggregator, the scrape and the pipeline
\* ------------------------------------------------------------------------
Present(r, k) == \E i \in 1..Len(r) : r[i][1] = k /\ r[i][2].some
ValueOf(r, k) == (CHOOSE i \in 1..Len(r) : r[i][1] = k /\ r[i][2].some) 
Reordered(r) ==
    {[i \in 1..Len(r) |-> r[q[i]]] :
        q \in {f \in [1..Len(r) -> 1..Len(r)] : \A i, j \in 1..Len(r) : f[i] = f[j] => i = j}}

\* C1: the first present slot in the order photo, message, scrape, anchors is
\* returned with confidence 0.90, 0.75, 0.60, 0.35; (None, 0.0) exactly when no
\* slot is present; the order of the items in the map does not matter.
C1_FixedPriority ==
    pc = "chosen" =>
        LET P(k) == Present(results, k)
            V(k) == results[ValueOf(results, k)][2]
        IN  /\ P("by_profile_photo") =>
                  final.dt = V("by_profile_photo") /\ final.conf = 90
            /\ (~P("by_profile_photo") /\ P("by_telethon_msg")) =>
                  final.dt = V("by_telethon_msg") /\ final.conf = 75
            /\ (~P("by_profile_photo") /\ ~P("by_telethon_msg") /\ P("by_tme_scrape")) =>
                  final.dt = V("by_tme_scrape") /\ final.conf = 60
            /\ (~P("by_profile_photo") /\ ~P("by_telethon_msg") /\ ~P("by_tme_scrape")
                    /\ P("by_anchors")) =>
                  final.dt = V("by_anchors") /\ final.conf = 35
            /\ (final.dt = None /\ final.conf = 0) <=> (\A k \in Slots : ~P(k))
            /\ \A r \in Reordered(results) : choose_final_estimate(r) = final

C1_Witness ==
    /\ pc = "chosen"
    /\ Len(results) = 4
    /\ results[1][1] = "by_anchors" /\ results[1][2].some
    /\ results[4][1] = "by_profile_photo" /\ results[4][2].some
    /\ results[1][2] # results[4][2]
    /\ final.conf = 90

ScenarioTable == ParseAnchors(ScenarioData)

\* C6 as stated: identifier 1000000000, the four-anchor table on disk, no other
\* signal: the final estimate is the interpolation between the 1000500000 and
\* 2000000000 anchors of that table, confidence 0.35.
C6_ScenarioUpperBracket ==
    [][(pc = "rest" /\ pc' = "idle" /\ file = Written(ScenarioData)
            /\ ent.id = 1000000000 /\ Len(results') = 1) =>
          /\ final'.conf = 35
          /\ final'.dt = Some(ScenarioTable[3][2]
                               + MulFrac(ScenarioTable[4][2] - ScenarioTable[3][2],
                                         1000000000 - 1000500000,
                                         2000000000 - 1000500000))]_vars

\* C6 amended: identifier 1000000000 with no other signal gets, with confidence
\* 0.35, the interpolation between the adjacent anchors of the table loaded by
\* the request that bracket it; in the four-anchor table that pair is 500500000
\* and 1000500000.
C6_BracketingPair ==
    /\ (obs.reply = "estimate" /\ ent.id = 1000000000
            /\ \A k \in Slots \ {"by_anchors"} : ~Present(results, k)) =>
          /\ final.conf = 35
          /\ \E i \in 1..(Len(anchors) - 1) :
                /\ anchors[i][1] <= 1000000000 /\ 1000000000 <= anchors[i + 1][1]
                /\ final.dt = Some(anchors[i][2]
                                    + MulFrac(anchors[i + 1][2] - anchors[i][2],
                                              1000000000 - anchors[i][1],
                                              anchors[i + 1][1] - anchors[i][1]))
    /\ EstimateOn(ScenarioTable, 1000000000).ids = <<500500000, 1000500000>>

C6_Witness ==
    /\ obs.reply = "estimate"
    /\ ent.id = 1000000000
    /\ Len(results) = 1
    /\ Len(anchors) >= 3
    /\ est.why = "Interpolated between"
    /\ final.conf = 35

SetMin(S) == CHOOSE m \in S : \A x \in S : m <= x

\* C7: a page whose fetch fails counts as a page without timestamps: the scrape
\* returns the minimum of the timestamps of the pages fetched successfully, and
\* None only when there is none.
C7_PageErrorSwallowed ==
    pc = "returned" =>
        scraped = IF okTimes = {} THEN None ELSE Some(SetMin(okTimes))

\* C8: the message slot holds only a message-scan timestamp and the scrape slot
\* only a scrape timestamp; with a public handle, a scrape yielding T and
\* neither photo nor message scan yielding anything, the final estimate is T
\* with confidence 0.60 and the public-post rationale.
C8_ScrapeInScrapeSlot ==
    obs.reply = "estimate" =>
        /\ Present(results, "by_telethon_msg") =>
              DictGet(results, "by_telethon_msg") = obs.scan
        /\ Present(results, "by_tme_scrape") =>
              DictGet(results, "by_tme_scrape") \in {obs.scrape1, obs.scrape2}
        /\ (ent.uname /\ obs.scrape1.some /\ ~obs.photo.some /\ ~obs.scan.some) =>
              /\ final.dt = obs.scrape1
              /\ final.conf = 60
              /\ final.text = "Earliest public t.me post (medium confidence)"

\* C9: after resolution no extractor failure aborts the request; a failed
\* photo or message extractor leaves its slot absent, by_anchors is always
\* filled, and the request ends with a timestamp and confidence >= 0.35.
C9_AlwaysAnEstimate ==
    /\ obs.reply # "crash"
    /\ "photo" \in obs.failed => ~Present(results, "by_profile_photo")
    /\ "scan" \in obs.failed => ~Present(results, "by_telethon_msg")
    /\ (pc = "idle" /\ ent # NoEnt) => obs.reply = "estimate"
    /\ obs.reply = "estimate" =>
          /\ Present(results, "by_anchors")
          /\ final.dt.some
          /\ final.conf >= 35
          /\ final.text # "No usable signal found"

C9_Witness ==
    /\ obs.reply = "estimate"
    /\ obs.failed = {"photo", "scan", "scrape"}
    /\ Len(results) = 1
    /\ final.conf = 35

====
